---- MODULE Spec2Model ----
(***************************************************************************)
(* Model of gametorch::animations::generate (src/src/lib.rs): one run of   *)
(* the submit -> poll -> fetch-artifact -> write workflow, with the remote *)
(* service and the filesystem as a nondeterministic environment.           *)
(* SpecAbort adds the host dropping the run, SpecConcurrent drives two     *)
(* runs on one filesystem, SpecCommandLine is the printing of a command's  *)
(* JSON by main (src/src/main.rs).                                         *)
(***************************************************************************)
EXTENDS Integers, Sequences, FiniteSets, TLC

VARIABLES
    duration_seconds,   \* argument: u32
    block,              \* argument: bool
    output_file,        \* argument: Option<&str>
    input_image_path,   \* argument: Option<&str>
    model_id,           \* argument: Option<u32>
    model_name,         \* argument: Option<&str>
    image_file,         \* the file input_image_path names, as the run finds it
    pc,                 \* position of the run: the await it is suspended at
    result,             \* what generate returned (pending while it runs)
    body,               \* the request body built at lines 95-127
    post_resp,          \* local of line 130
    animation_id,       \* local of line 140
    animation_results,  \* local of line 162
    result_id,          \* local of line 207
    elapsed,            \* local of line 163
    waited_sec,         \* local of line 223
    bytes,              \* local of line 224
    fs,                 \* the filesystem: path -> file
    statusReply,        \* history: the reply to the status request of the current
                        \* iteration of the poll loop (none between iterations and
                        \* once the loop is left by break)
    obs,                \* history: the status extracted from each status response
    zipHist,            \* history: the reply to each artifact GET
    nPost,              \* history: submission POSTs issued
    nStatus,            \* history: status GETs issued
    nZip,               \* history: artifact GETs issued
    pollSleeps,         \* history: sleeps performed by the poll loop
    zipSleeps,          \* history: sleeps performed by the artifact loop
    nRead,              \* history: file reads attempted
    nWrite,             \* history: file writes attempted
    scripts,            \* two runs: what each run is given and what the service answers it
    runs,               \* two runs: the locals and position of each run
    shared_fs,          \* two runs: the filesystem both runs write to
    command,            \* command line: cli.command
    porcelain,          \* command line: cli.porcelain
    returned,           \* command line: what the library call of the command returned
    cli_pc,             \* command line: position of main
    stdout,             \* command line: the JSON value printed, if any
    exit_code           \* command line: exit status of the process

args == <<duration_seconds, block, output_file, input_image_path, model_id, model_name,
          image_file>>
locals == <<body, post_resp, animation_id, animation_results, result_id, elapsed, waited_sec, bytes>>
history == <<statusReply, obs, zipHist, nPost, nStatus, nZip, pollSleeps, zipSleeps, nRead, nWrite>>
single == <<args, pc, result, locals, fs, history>>
concurrent == <<scripts, runs, shared_fs>>
cli == <<command, porcelain, returned, cli_pc, stdout, exit_code>>
vars == <<single, concurrent, cli>>

----------------------------------------------------------------------------
(* Bounds of the model and constants of the program *)

\* The poll loop has no iteration cap; the model stops issuing status GETs here.
MaxPolls == 3

PollIntervalSec == 5
ZipRetryIntervalSec == 5
ZipWaitCeilingSec == 120
DefaultModelId == 6

----------------------------------------------------------------------------
(* Option<T> *)

None == [some |-> FALSE]
Some(v) == [some |-> TRUE, v |-> v]

(* serde_json values, as far as generate inspects them.  A field of an     *)
(* object is absent, holds a value that is no i64 (a string, a float, ...) *)
(* or holds an integer.                                                    *)
Absent == [t |-> "absent"]
NonInt == [t |-> "nonint"]
JInt(n) == [t |-> "int", n |-> n]
JStr(s) == [t |-> "str", s |-> s]

\* Value::as_i64 applied to the result of Value::get
AsI64(field) == IF field.t = "int" THEN Some(field.n) ELSE None

AnimationIdValues == {42}
ResultIdValues == {77, 78}
StatusValues == {0, 1, 2, 3}

AnimationIdFields == {Absent, NonInt} \cup {JInt(n) : n \in AnimationIdValues}
ResultIdFields == {Absent, NonInt} \cup {JInt(n) : n \in ResultIdValues}
StatusFields == {Absent, NonInt} \cup {JInt(n) : n \in StatusValues}

\* Bodies the submission endpoint may answer with
PostBodies == [animation_id : AnimationIdFields]

\* One entry of the status payload
StatusItems == [status : StatusFields, id : ResultIdFields]

\* An element that may follow the first one in an array payload
TrailingItems == {[status |-> JInt(3), id |-> JInt(78)]}

\* Bodies the status endpoint may answer with: a single object, an array
\* (empty, of one object, of two objects), or a JSON value that is neither.
StatusBodies ==
    {[shape |-> "object", items |-> <<i>>] : i \in StatusItems}
    \cup {[shape |-> "array", items |-> <<>>]}
    \cup {[shape |-> "array", items |-> <<i>>] : i \in StatusItems}
    \cup {[shape |-> "array", items |-> <<i, j>>] : i \in StatusItems, j \in TrailingItems}
    \cup {[shape |-> "scalar", items |-> <<>>]}

\* HTTP status codes the service may answer with
HttpCodes == {200, 304, 404, 500}

\* Payloads of the artifact endpoint
ZipBodies == {<<1, 2>>}

DurationValues == {0, 4, 5, 7, 10, 11}
OutputFileValues == {None, Some("out.zip")}
InputImageValues == {None, Some("in.png")}
ModelIdValues == {None, Some(3)}
ModelNameValues == {None, Some("alpha/v2.1")}

\* Content of the input image file when it is readable
ImageBytes == <<77, 97>>
\* Content of a file that exists before the run
OldBytes == <<9>>

NoFile == [exists |-> FALSE]
File(data) == [exists |-> TRUE, data |-> data]

\* What the input image path may name: no file, or a file holding ImageBytes
ImageFileValues == {NoFile, File(ImageBytes)}

----------------------------------------------------------------------------
(* base64::engine::general_purpose::STANDARD.encode, line 90 *)

Base64Alphabet ==
    << "A", "B", "C", "D", "E", "F", "G", "H", "I", "J", "K", "L", "M",
       "N", "O", "P", "Q", "R", "S", "T", "U", "V", "W", "X", "Y", "Z",
       "a", "b", "c", "d", "e", "f", "g", "h", "i", "j", "k", "l", "m",
       "n", "o", "p", "q", "r", "s", "t", "u", "v", "w", "x", "y", "z",
       "0", "1", "2", "3", "4", "5", "6", "7", "8", "9", "+", "/" >>

Base64Char(n) == Base64Alphabet[n + 1]

RECURSIVE Base64Encode(_)
Base64Encode(data) ==
    IF Len(data) = 0 THEN ""
    ELSE LET b0 == data[1]
             b1 == IF Len(data) >= 2 THEN data[2] ELSE 0
             b2 == IF Len(data) >= 3 THEN data[3] ELSE 0
             n == b0 * 65536 + b1 * 256 + b2
             c0 == Base64Char(n \div 262144)
             c1 == Base64Char((n \div 4096) % 64)
             c2 == IF Len(data) >= 2 THEN Base64Char((n \div 64) % 64) ELSE "="
             c3 == IF Len(data) >= 3 THEN Base64Char(n % 64) ELSE "="
             rest == IF Len(data) > 3 THEN SubSeq(data, 4, Len(data)) ELSE <<>>
         IN c0 \o c1 \o c2 \o c3 \o Base64Encode(rest)

----------------------------------------------------------------------------
(* The decisions generate takes, one operator per condition of the code *)

Prompt == "a dragon"

\* A slip of line 72: every duration from 5 to 10 is accepted
DurationValidRange(d) == d >= 5 /\ d <= 10

\* line 72: the duration is accepted
DurationValid(d) == d = 5 \/ d = 10

\* A slip of line 79: the test is made on the absence of the selectors
SelectorsConflictNegated(mid, mname) == ~mid.some /\ ~mname.some

\* line 79: both model selectors are present
SelectorsConflict(mid, mname) == mid.some /\ mname.some

\* A slip of lines 117-123: the default is the model name of the CLI help
ModelSelectorDefaultName(mid, mname) ==
    IF mid.some /\ ~mname.some THEN [key |-> "animation_model_id", value |-> JInt(mid.v)]
    ELSE IF ~mid.some /\ mname.some THEN [key |-> "animation_model_name", value |-> JStr(mname.v)]
    ELSE IF ~mid.some /\ ~mname.some
    THEN [key |-> "animation_model_name", value |-> JStr("alpha/v2.1")]
    ELSE [key |-> "unreachable", value |-> JStr("panic")]

\* lines 104-125: the model selector entry of the request body
ModelSelector(mid, mname) ==
    IF mid.some /\ ~mname.some THEN [key |-> "animation_model_id", value |-> JInt(mid.v)]
    ELSE IF ~mid.some /\ mname.some THEN [key |-> "animation_model_name", value |-> JStr(mname.v)]
    ELSE IF ~mid.some /\ ~mname.some THEN [key |-> "animation_model_id", value |-> JInt(DefaultModelId)]
    ELSE [key |-> "unreachable", value |-> JStr("panic")]

\* lines 95-127: the request body, as the set of its (key, value) entries
BuildBody(d, image64, mid, mname) ==
    { <<"prompt", JStr(Prompt)>>,
      <<"duration_seconds", JInt(d)>>,
      <<"input_image_base64", JStr(image64)>>,
      <<ModelSelector(mid, mname).key, ModelSelector(mid, mname).value>> }

\* A slip of line 89: a failed read yields no bytes instead of an error
ReadImageOrEmpty(file) ==
    IF file.exists THEN [ok |-> TRUE, data |-> file.data] ELSE [ok |-> TRUE, data |-> <<>>]

\* line 89: tokio::fs::read(path).await
ReadImage(file) ==
    IF file.exists THEN [ok |-> TRUE, data |-> file.data] ELSE [ok |-> FALSE]

\* Response::error_for_status: a client or server error status is an Err
IsErrorStatus(code) == code >= 400 /\ code <= 599

\* A slip of line 234: every status from 200 up counts as success
IsSuccessLoose(code) == code >= 200

\* StatusCode::is_success
IsSuccess(code) == code >= 200 /\ code <= 299

\* What the environment may answer to a request whose body is read as JSON
NotJson == [shape |-> "notjson"]
JsonReplies(bodies) ==
    {[kind |-> "send_err"]}
    \cup {[kind |-> "http", code |-> c, json |-> NotJson] : c \in HttpCodes}
    \cup {[kind |-> "http", code |-> c, json |-> b] :
             c \in {c \in HttpCodes : ~IsErrorStatus(c)}, b \in bodies}

\* .send().await?.error_for_status()?.json().await? (lines 130-138, 165-172)
FetchJson(reply) ==
    IF reply.kind = "send_err" THEN [ok |-> FALSE, err |-> "TransportError"]
    ELSE IF IsErrorStatus(reply.code) THEN [ok |-> FALSE, err |-> "RemoteError"]
    ELSE IF reply.json = NotJson THEN [ok |-> FALSE, err |-> "DecodeError"]
    ELSE [ok |-> TRUE, json |-> reply.json]

\* A slip of lines 140-143: a missing id becomes 0 (unwrap_or) instead of an error
AnimationIdOfOrZero(json) ==
    IF json.animation_id.t = "int" THEN Some(json.animation_id.n) ELSE Some(0)

\* lines 140-143
AnimationIdOf(json) == AsI64(json.animation_id)

\* A slip of line 176: the last element of the array is taken, not the first
FirstItemLast(resp) ==
    IF resp.shape = "array"
    THEN IF Len(resp.items) >= 1 THEN Some(resp.items[Len(resp.items)]) ELSE None
    ELSE IF resp.shape = "object" THEN Some(resp.items[1]) ELSE None

\* Value::get(0) on the payload when it is an array, the payload itself when
\* it is an object; None when there is nothing to look into
FirstItem(resp) ==
    IF resp.shape = "array"
    THEN IF Len(resp.items) >= 1 THEN Some(resp.items[1]) ELSE None
    ELSE IF resp.shape = "object" THEN Some(resp.items[1]) ELSE None

\* lines 175-182
StatusOf(resp) ==
    IF FirstItem(resp).some THEN AsI64(FirstItem(resp).v.status) ELSE None

\* lines 207-214
ResultIdOf(resp) ==
    IF FirstItem(resp).some THEN AsI64(FirstItem(resp).v.id) ELSE None

\* line 150: the run returns right after the submission
ReturnsAfterSubmitNever(b) == FALSE
ReturnsAfterSubmit(b) == ~b

\* A slip of lines 186-190: the arm of status 2 tests for status 1
PollDecisionWrongComplete(status) ==
    IF status.some /\ status.v = 1 THEN "complete"
    ELSE IF status.some /\ status.v = 3 THEN "failed"
    ELSE "pending"

\* A slip of lines 191-194: the arm of status 3 is missing
PollDecisionNoFailed(status) ==
    IF status.some /\ status.v = 2 THEN "complete"
    ELSE "pending"

\* A slip of line 184: a response without a usable status counts as a failure
PollDecisionStrict(status) ==
    IF status.some /\ status.v = 2 THEN "complete"
    ELSE IF status.some /\ status.v = 3 THEN "failed"
    ELSE IF ~status.some THEN "failed"
    ELSE "pending"

\* lines 184-197: what the poll loop does with the extracted status
PollDecision(status) ==
    IF status.some /\ status.v = 2 THEN "complete"
    ELSE IF status.some /\ status.v = 3 THEN "failed"
    ELSE "pending"

\* A slip of line 237: the retried status is 503
ZipNotReady503(code) == code = 503

\* A slip of line 237: every error status is retried
ZipNotReadyAnyError(code) == code >= 400

\* line 237: the artifact is not ready yet
ZipNotReady(code) == code = 500

\* A slip of line 251: > in place of >=
ZipTimedOutStrict(w) == w > ZipWaitCeilingSec

\* A slip of line 251: the budget counts the sleep still to come
ZipTimedOutEarly(w) == w + ZipRetryIntervalSec >= ZipWaitCeilingSec

\* line 251: the wait budget is used up
ZipTimedOut(w) == w >= ZipWaitCeilingSec

\* A slip of lines 259-261: the ids are left out of the derived name
DerivedPathFixed(aid, rid) == "animation.zip"

\* lines 259-261
DerivedPath(aid, rid) == "animation_" \o ToString(aid) \o "_" \o ToString(rid) \o ".zip"
\* A slip of lines 259-261: the caller's output path is ignored
OutputPathDerivedOnly(out, aid, rid) == DerivedPath(aid, rid)

OutputPath(out, aid, rid) == IF out.some THEN out.v ELSE DerivedPath(aid, rid)

\* lines 269-273
OutJson(aid, rid, path) == [animation_id |-> aid, result_id |-> rid, zip_path |-> path]

Paths ==
    {o.v : o \in {o \in OutputFileValues : o.some}}
    \cup {DerivedPath(a, r) : a \in AnimationIdValues, r \in ResultIdValues}

Pending == [kind |-> "pending"]
Ok(v) == [kind |-> "ok", value |-> v]
Err(e) == [kind |-> "err", err |-> e]

----------------------------------------------------------------------------
(* Two runs of generate driven concurrently on one filesystem. Each run has  *)
(* valid arguments, no input image and block = true; the service gives each  *)
(* submission its own animation id, and answers each run by a script fixed   *)
(* beforehand, so that what the run does alone is determined.                *)

Runs == {1, 2}

\* The animation id and the artifact the service has for the submission of run r
ConcurrentAnimationId(r) == 41 + r
ConcurrentZip(r) == <<r, r + 2>>

\* output_file; the statuses answered to the status requests, in order; the
\* HTTP codes answered to the artifact requests, in order; how far the file
\* write gets: -1 the file cannot be opened, otherwise the bytes written
Scripts ==
    [output_file : OutputFileValues,
     statuses : {<<2>>, <<1, 2>>, <<3>>},
     zips : {<<200>>, <<500, 200>>, <<404>>},
     written : {-1, 1, 2}]

ConcurrentPaths ==
    {o.v : o \in {o \in OutputFileValues : o.some}}
    \cup {DerivedPath(ConcurrentAnimationId(r), 77) : r \in Runs}

InitSharedFs == [p \in ConcurrentPaths |-> IF p = "out.zip" THEN File(OldBytes) ELSE NoFile]

\* The locals of a run at line 129
RunAtSubmit ==
    [pc |-> "submit", result |-> [kind |-> "pending"],
     animation_id |-> None, result_id |-> None, waited_sec |-> 0, bytes |-> None,
     nStatus |-> 0, nZip |-> 0, nWrite |-> 0, path |-> None]

\* The state of the two runs when only one run of generate is studied
NoConcurrentRuns ==
    /\ scripts = [r \in Runs |-> [output_file |-> None, statuses |-> <<2>>,
                                  zips |-> <<200>>, written |-> 2]]
    /\ runs = [r \in Runs |-> RunAtSubmit]
    /\ shared_fs = InitSharedFs

----------------------------------------------------------------------------
(* The command line (src/src/main.rs): the JSON a command prints, with the   *)
(* numeric status fields replaced by labels unless --porcelain is given.     *)

\* serde_json::Value as replace_status_recursive sees it: an object with the
\* key "status" and one other key ("results"), each present or absent; an
\* array; or a scalar (an integer, a string, a number that is no i64)
Obj(status, results) == [t |-> "obj", status |-> status, results |-> results]
Arr(items) == [t |-> "arr", items |-> items]

StatusNumbers == {0, 1, 2, 3, 7}
Scalars == {JInt(n) : n \in StatusNumbers} \cup {JStr("x"), NonInt}

\* Objects without nested object, objects of depth two, arrays of them
FlatObjects == {Obj(st, Absent) : st \in Scalars \cup {Absent}}
StatusFieldValues == Scalars \cup {Absent, Obj(JInt(2), Absent)}
FlatArrays ==
    {Arr(<<>>)}
    \cup {Arr(<<o>>) : o \in FlatObjects}
    \cup {Arr(<<o, Obj(JInt(1), Absent)>>) : o \in FlatObjects}
NestedObjects ==
    {Obj(st, r) : st \in StatusFieldValues, r \in FlatObjects \cup FlatArrays \cup {JInt(1)}}

\* The JSON values a library call may return
JsonValues ==
    Scalars
    \cup FlatObjects
    \cup FlatArrays
    \cup NestedObjects
    \cup {Arr(<<o>>) : o \in NestedObjects}
    \cup {Obj(st, r) : st \in {Absent, JInt(1), JInt(7)}, r \in NestedObjects}

\* main.rs lines 106-111
StatusLabel(num) ==
    IF num = 1 THEN "generating"
    ELSE IF num = 2 THEN "complete"
    ELSE "failed and refunded"

\* main.rs lines 100-126
RECURSIVE replace_status_recursive(_)
replace_status_recursive(value) ==
    IF value.t = "obj"
    THEN LET num == AsI64(value.status) IN
         IF num.some /\ num.v \notin {1, 2, 3}
         THEN value
         ELSE LET status_val == IF num.some THEN JStr(StatusLabel(num.v))
                                ELSE value.status
              IN Obj(replace_status_recursive(status_val),
                     replace_status_recursive(value.results))
    ELSE IF value.t = "arr"
    THEN Arr([i \in DOMAIN value.items |-> replace_status_recursive(value.items[i])])
    ELSE value

Commands == {"get", "list", "generate", "regenerate"}

\* The state of the command line when generate is studied by itself
NoCommandLine ==
    /\ command = "generate"
    /\ porcelain = FALSE
    /\ returned = [ok |-> FALSE]
    /\ cli_pc = "dispatch"
    /\ stdout = None
    /\ exit_code = 0

----------------------------------------------------------------------------
(* The state after the call of generate, before its first statement *)

\* The filesystem before the run: the caller's usual output file exists
InitFs == [p \in Paths |-> IF p = "out.zip" THEN File(OldBytes) ELSE NoFile]

Init ==
    /\ duration_seconds \in DurationValues
    /\ block \in BOOLEAN
    /\ output_file \in OutputFileValues
    /\ input_image_path \in InputImageValues
    /\ model_id \in ModelIdValues
    /\ model_name \in ModelNameValues
    /\ image_file \in (IF input_image_path.some THEN ImageFileValues ELSE {NoFile})
    /\ pc = "start"
    /\ result = Pending
    /\ body = {}
    /\ post_resp = None
    /\ animation_id = None
    /\ animation_results = None
    /\ result_id = None
    /\ elapsed = 0
    /\ waited_sec = 0
    /\ bytes = None
    /\ fs = InitFs
    /\ statusReply = None
    /\ obs = <<>>
    /\ zipHist = <<>>
    /\ nPost = 0
    /\ nStatus = 0
    /\ nZip = 0
    /\ pollSleeps = 0
    /\ zipSleeps = 0
    /\ nRead = 0
    /\ nWrite = 0
    /\ NoConcurrentRuns
    /\ NoCommandLine

\* generate returns r
Return(r) ==
    /\ pc' = "done"
    /\ result' = r

\* lines 71-85: validation of the arguments
Validate ==
    /\ pc = "start"
    /\ IF ~DurationValid(duration_seconds)
       THEN Return(Err("InvalidParameter"))
       ELSE IF SelectorsConflict(model_id, model_name)
       THEN Return(Err("ConflictingParameter"))
       ELSE pc' = "prepare" /\ result' = result
    /\ UNCHANGED <<cli, concurrent, args, locals, fs, history>>

\* lines 87-127: the input image is read and encoded, the body is built
PrepareBody ==
    /\ pc = "prepare"
    /\ IF input_image_path.some
       THEN /\ nRead' = nRead + 1
            /\ LET read == ReadImage(image_file) IN
                 IF ~read.ok
                 THEN Return(Err("IOError")) /\ body' = body
                 ELSE /\ body' = BuildBody(duration_seconds, Base64Encode(read.data),
                                           model_id, model_name)
                      /\ pc' = "submit"
                      /\ result' = result
       ELSE /\ nRead' = nRead
            /\ body' = BuildBody(duration_seconds, "", model_id, model_name)
            /\ pc' = "submit"
            /\ result' = result
    /\ UNCHANGED <<cli, concurrent, args, post_resp, animation_id, animation_results, result_id, elapsed,
                   waited_sec, bytes, fs, statusReply,
                   obs, zipHist, nPost, nStatus, nZip, pollSleeps, zipSleeps, nWrite>>

\* lines 129-163: the submission POST, the animation id, the non-blocking return
Submit ==
    /\ pc = "submit"
    /\ nPost' = nPost + 1
    /\ \E reply \in JsonReplies(PostBodies) :
         LET fetched == FetchJson(reply) IN
         IF ~fetched.ok
         THEN Return(Err(fetched.err)) /\ UNCHANGED <<post_resp, animation_id>>
         ELSE /\ post_resp' = Some(fetched.json)
              /\ IF ~AnimationIdOf(fetched.json).some
                 THEN Return(Err("MalformedResponse")) /\ animation_id' = animation_id
                 ELSE /\ animation_id' = AnimationIdOf(fetched.json)
                      /\ IF ReturnsAfterSubmit(block)
                         THEN Return(Ok(fetched.json))
                         ELSE pc' = "poll" /\ result' = result
    /\ elapsed' = 0
    /\ UNCHANGED <<cli, concurrent, args, body, animation_results, result_id, waited_sec, bytes, fs,
                   statusReply, obs, zipHist, nStatus, nZip, pollSleeps, zipSleeps, nRead, nWrite>>

\* lines 164-197 and, when the loop is left, 206-223: one status request
PollStatus ==
    /\ pc = "poll"
    /\ nStatus < MaxPolls
    /\ nStatus' = nStatus + 1
    /\ \E reply \in JsonReplies(StatusBodies) :
         LET resp == FetchJson(reply) IN
         IF ~resp.ok
         THEN /\ Return(Err(resp.err))
              /\ statusReply' = Some(reply)
              /\ UNCHANGED <<obs, animation_results, result_id>>
         ELSE /\ obs' = Append(obs, StatusOf(resp.json))
              /\ IF PollDecision(StatusOf(resp.json)) = "complete"
                 THEN /\ animation_results' = Some(resp.json)
                      /\ IF ~ResultIdOf(resp.json).some
                         THEN /\ Return(Err("MalformedResponse"))
                              /\ statusReply' = Some(reply)
                              /\ result_id' = result_id
                         ELSE /\ result_id' = ResultIdOf(resp.json)
                              /\ statusReply' = None
                              /\ pc' = "fetch"
                              /\ result' = result
                 ELSE IF PollDecision(StatusOf(resp.json)) = "failed"
                 THEN /\ Return(Err("JobFailedRefunded"))
                      /\ statusReply' = Some(reply)
                      /\ UNCHANGED <<animation_results, result_id>>
                 ELSE /\ pc' = "poll_sleep" /\ result' = result
                      /\ statusReply' = Some(reply)
                      /\ UNCHANGED <<animation_results, result_id>>
    /\ waited_sec' = 0
    /\ UNCHANGED <<cli, concurrent, args, body, post_resp, animation_id, elapsed, bytes, fs,
                   zipHist, nPost, nZip, pollSleeps, zipSleeps, nRead, nWrite>>

\* lines 199-203: the sleep between two status requests
PollSleep ==
    /\ pc = "poll_sleep"
    /\ pollSleeps' = pollSleeps + 1
    /\ elapsed' = elapsed + PollIntervalSec
    /\ pc' = "poll"
    /\ statusReply' = None
    /\ UNCHANGED <<cli, concurrent, args, result, body, post_resp, animation_id, animation_results,
                   result_id, waited_sec, bytes, fs,
                   obs, zipHist, nPost, nStatus, nZip, zipSleeps, nRead, nWrite>>

\* What the environment may answer to the artifact GET
ZipReplies ==
    {[kind |-> "send_err"]}
    \cup {[kind |-> "http", code |-> c, data |-> None] : c \in HttpCodes}
    \cup {[kind |-> "http", code |-> c, data |-> Some(b)] :
             c \in {c \in HttpCodes : IsSuccess(c)}, b \in ZipBodies}

\* lines 225-253: one artifact request
FetchZip ==
    /\ pc = "fetch"
    /\ nZip' = nZip + 1
    /\ \E reply \in ZipReplies :
         /\ zipHist' = Append(zipHist, reply)
         /\ IF reply.kind = "send_err"
            THEN Return(Err("TransportError")) /\ bytes' = bytes
            ELSE IF IsSuccess(reply.code)
            THEN IF ~reply.data.some
                 THEN Return(Err("BodyReadError")) /\ bytes' = bytes
                 ELSE bytes' = reply.data /\ pc' = "write" /\ result' = result
            ELSE IF ZipNotReady(reply.code)
            THEN /\ bytes' = bytes
                 /\ IF ZipTimedOut(waited_sec)
                    THEN Return(Err("Timeout"))
                    ELSE pc' = "fetch_sleep" /\ result' = result
            ELSE Return(Err("RemoteError")) /\ bytes' = bytes
    /\ UNCHANGED <<cli, concurrent, args, body, post_resp, animation_id, animation_results, result_id,
                   elapsed, waited_sec, fs, statusReply,
                   obs, nPost, nStatus, pollSleeps, zipSleeps, nRead, nWrite>>

\* lines 254-255: the sleep between two artifact requests
FetchSleep ==
    /\ pc = "fetch_sleep"
    /\ zipSleeps' = zipSleeps + 1
    /\ waited_sec' = waited_sec + ZipRetryIntervalSec
    /\ pc' = "fetch"
    /\ UNCHANGED <<cli, concurrent, args, result, body, post_resp, animation_id, animation_results,
                   result_id, elapsed, bytes, fs, statusReply,
                   obs, zipHist, nPost, nStatus, nZip, pollSleeps, nRead, nWrite>>

\* What tokio::fs::write (std::fs::write: create or truncate, then write_all)
\* may leave at the path: the whole data; nothing changed (the file could not
\* be opened); or, after a failure while writing, a proper prefix of the data.
WriteOutcomes(old, data) ==
    {[ok |-> TRUE, file |-> File(data)], [ok |-> FALSE, file |-> old]}
    \cup {[ok |-> FALSE, file |-> File(SubSeq(data, 1, k))] : k \in 0 .. (Len(data) - 1)}

\* lines 258-275: the output path, the file write, the outcome
WriteFile ==
    /\ pc = "write"
    /\ nWrite' = nWrite + 1
    /\ LET path == OutputPath(output_file, animation_id.v, result_id.v) IN
       \E w \in WriteOutcomes(fs[path], bytes.v) :
         /\ fs' = [fs EXCEPT ![path] = w.file]
         /\ IF w.ok
            THEN Return(Ok(OutJson(animation_id.v, result_id.v, path)))
            ELSE Return(Err("IOError"))
    /\ UNCHANGED <<cli, concurrent, args, locals, statusReply, obs, zipHist, nPost, nStatus, nZip,
                   pollSleeps, zipSleeps, nRead>>

Next ==
    \/ Validate
    \/ PrepareBody
    \/ Submit
    \/ PollStatus
    \/ PollSleep
    \/ FetchZip
    \/ FetchSleep
    \/ WriteFile

Spec == Init /\ [][Next]_vars

----------------------------------------------------------------------------
(* The host drops the future of generate while it is suspended *)

Aborted == [kind |-> "aborted"]

\* The awaits of generate: the image read (line 89), the POST and its body
\* (lines 137-138), the status request and its body (lines 171-172), the
\* sleeps (lines 199, 254), the artifact request and its body (lines 230,
\* 235), the file write (line 263)
SuspensionPoints ==
    {"prepare", "submit", "poll", "poll_sleep", "fetch", "fetch_sleep", "write"}

\* The run is dropped at an await. Dropped inside tokio::fs::write, the write is
\* in the hands of a blocking thread that the drop does not stop: the file may be
\* untouched, truncated and partly written, or whole.
Abort ==
    /\ pc \in SuspensionPoints
    /\ pc = "prepare" => input_image_path.some
    /\ pc' = "aborted"
    /\ result' = Aborted
    /\ IF pc = "write"
       THEN LET path == OutputPath(output_file, animation_id.v, result_id.v) IN
            \E w \in WriteOutcomes(fs[path], bytes.v) :
              fs' = [fs EXCEPT ![path] = w.file]
       ELSE fs' = fs
    /\ UNCHANGED <<cli, concurrent, args, locals, history>>

----------------------------------------------------------------------------
(* Two concurrent runs: the steps of run r, those of generate from line 129  *)

\* What std::fs::write leaves when it gets as far as the script says
ScriptedWrite(old, data, written) ==
    IF written = -1 THEN [ok |-> FALSE, file |-> old]
    ELSE IF written >= Len(data) THEN [ok |-> TRUE, file |-> File(data)]
    ELSE [ok |-> FALSE, file |-> File(SubSeq(data, 1, written))]

\* lines 129-163
CSubmit(r) ==
    /\ runs[r].pc = "submit"
    /\ LET reply == [kind |-> "http", code |-> 200,
                     json |-> [animation_id |-> JInt(ConcurrentAnimationId(r))]]
           fetched == FetchJson(reply)
       IN runs' = [runs EXCEPT ![r].animation_id = AnimationIdOf(fetched.json),
                               ![r].pc = "poll"]
    /\ UNCHANGED <<cli, single, scripts, shared_fs>>

\* lines 164-197, 206-223
CPollStatus(r) ==
    /\ runs[r].pc = "poll"
    /\ LET n == runs[r].nStatus + 1
           item == [status |-> JInt(scripts[r].statuses[n]), id |-> JInt(77)]
           reply == [kind |-> "http", code |-> 200,
                     json |-> [shape |-> "object", items |-> <<item>>]]
           resp == FetchJson(reply)
           decision == PollDecision(StatusOf(resp.json))
       IN runs' = [runs EXCEPT
             ![r].nStatus = n,
             ![r].result_id = IF decision = "complete" THEN ResultIdOf(resp.json) ELSE @,
             ![r].waited_sec = 0,
             ![r].result = IF decision = "failed" THEN [kind |-> "err", err |-> "JobFailedRefunded"] ELSE @,
             ![r].pc = IF decision = "complete" THEN "fetch"
                       ELSE IF decision = "failed" THEN "done"
                       ELSE "poll_sleep"]
    /\ UNCHANGED <<cli, single, scripts, shared_fs>>

\* lines 199-203
CPollSleep(r) ==
    /\ runs[r].pc = "poll_sleep"
    /\ runs' = [runs EXCEPT ![r].pc = "poll"]
    /\ UNCHANGED <<cli, single, scripts, shared_fs>>

\* lines 225-253
CFetchZip(r) ==
    /\ runs[r].pc = "fetch"
    /\ LET n == runs[r].nZip + 1
           code == scripts[r].zips[n]
       IN runs' = [runs EXCEPT
             ![r].nZip = n,
             ![r].bytes = IF IsSuccess(code) THEN Some(ConcurrentZip(r)) ELSE @,
             ![r].result = IF IsSuccess(code) THEN @
                           ELSE IF ZipNotReady(code)
                           THEN IF ZipTimedOut(runs[r].waited_sec)
                                THEN [kind |-> "err", err |-> "Timeout"]
                                ELSE @
                           ELSE [kind |-> "err", err |-> "RemoteError"],
             ![r].pc = IF IsSuccess(code) THEN "write"
                       ELSE IF ZipNotReady(code)
                       THEN IF ZipTimedOut(runs[r].waited_sec) THEN "done" ELSE "fetch_sleep"
                       ELSE "done"]
    /\ UNCHANGED <<cli, single, scripts, shared_fs>>

\* lines 254-255
CFetchSleep(r) ==
    /\ runs[r].pc = "fetch_sleep"
    /\ runs' = [runs EXCEPT ![r].waited_sec = @ + ZipRetryIntervalSec,
                            ![r].pc = "fetch"]
    /\ UNCHANGED <<cli, single, scripts, shared_fs>>

\* lines 258-275; the write is taken as one step (two writes of one path that
\* overlap in time can only mix their bytes further)
CWriteFile(r) ==
    /\ runs[r].pc = "write"
    /\ LET path == OutputPath(scripts[r].output_file, runs[r].animation_id.v,
                              runs[r].result_id.v)
           w == ScriptedWrite(shared_fs[path], runs[r].bytes.v, scripts[r].written)
       IN /\ shared_fs' = [shared_fs EXCEPT ![path] = w.file]
          /\ runs' = [runs EXCEPT
                ![r].nWrite = @ + 1,
                ![r].path = Some(path),
                ![r].result = IF w.ok
                              THEN [kind |-> "ok",
                                    value |-> OutJson(runs[r].animation_id.v,
                                                      runs[r].result_id.v, path)]
                              ELSE [kind |-> "err", err |-> "IOError"],
                ![r].pc = "done"]
    /\ UNCHANGED <<cli, single, scripts>>

\* The single run of the other specifications stays where Init put it
SingleRunIdle ==
    /\ duration_seconds = 5
    /\ block = TRUE
    /\ output_file = None
    /\ input_image_path = None
    /\ model_id = None
    /\ model_name = None
    /\ image_file = NoFile
    /\ pc = "start"
    /\ result = [kind |-> "pending"]
    /\ body = {}
    /\ post_resp = None
    /\ animation_id = None
    /\ animation_results = None
    /\ result_id = None
    /\ elapsed = 0
    /\ waited_sec = 0
    /\ bytes = None
    /\ fs = InitFs
    /\ statusReply = None
    /\ obs = <<>>
    /\ zipHist = <<>>
    /\ nPost = 0
    /\ nStatus = 0
    /\ nZip = 0
    /\ pollSleeps = 0
    /\ zipSleeps = 0
    /\ nRead = 0
    /\ nWrite = 0

InitConcurrent ==
    /\ SingleRunIdle
    /\ NoCommandLine
    /\ scripts \in [Runs -> Scripts]
    /\ runs = [r \in Runs |-> RunAtSubmit]
    /\ shared_fs = InitSharedFs

NextConcurrent ==
    \/ \E r \in Runs : CSubmit(r)
    \/ \E r \in Runs : CPollStatus(r)
    \/ \E r \in Runs : CPollSleep(r)
    \/ \E r \in Runs : CFetchZip(r)
    \/ \E r \in Runs : CFetchSleep(r)
    \/ \E r \in Runs : CWriteFile(r)

SpecConcurrent == InitConcurrent /\ [][NextConcurrent]_vars

----------------------------------------------------------------------------
(* What a run does alone, computed from its script *)

RECURSIVE AlonePoll(_, _)
AlonePoll(statuses, n) ==
    LET decision == PollDecision(Some(statuses[n])) IN
    IF decision = "pending" THEN AlonePoll(statuses, n + 1) ELSE decision

RECURSIVE AloneFetch(_, _, _)
AloneFetch(zips, n, waited) ==
    IF IsSuccess(zips[n]) THEN "write"
    ELSE IF ZipNotReady(zips[n])
    THEN IF ZipTimedOut(waited) THEN "Timeout"
         ELSE AloneFetch(zips, n + 1, waited + ZipRetryIntervalSec)
    ELSE "RemoteError"

AlonePath(r) == OutputPath(scripts[r].output_file, ConcurrentAnimationId(r), 77)

AloneWrite(r) ==
    ScriptedWrite(InitSharedFs[AlonePath(r)], ConcurrentZip(r), scripts[r].written)

\* The outcome of run r alone, and whether it gets to the write
AloneWrites(r) ==
    /\ AlonePoll(scripts[r].statuses, 1) = "complete"
    /\ AloneFetch(scripts[r].zips, 1, 0) = "write"

AloneResult(r) ==
    IF AlonePoll(scripts[r].statuses, 1) = "failed"
    THEN [kind |-> "err", err |-> "JobFailedRefunded"]
    ELSE IF AloneFetch(scripts[r].zips, 1, 0) # "write"
    THEN [kind |-> "err", err |-> AloneFetch(scripts[r].zips, 1, 0)]
    ELSE IF AloneWrite(r).ok
    THEN [kind |-> "ok", value |-> OutJson(ConcurrentAnimationId(r), 77, AlonePath(r))]
    ELSE [kind |-> "err", err |-> "IOError"]

\* Run r has ended as it ends alone, and its artifact file is as it leaves it alone
AsAlone(r) ==
    /\ runs[r].result = AloneResult(r)
    /\ runs[r].nWrite = (IF AloneWrites(r) THEN 1 ELSE 0)
    /\ AloneWrites(r) => shared_fs[AlonePath(r)] = AloneWrite(r).file

----------------------------------------------------------------------------
(* The command line: main from the return of the library call               *)

InitCommandLine ==
    /\ SingleRunIdle
    /\ NoConcurrentRuns
    /\ command \in Commands
    /\ porcelain \in BOOLEAN
    /\ returned \in {[ok |-> FALSE]} \cup {[ok |-> TRUE, json |-> v] : v \in JsonValues}
    /\ cli_pc = "dispatch"
    /\ stdout = None
    /\ exit_code = 0

\* The arms of a command: Ok prints the JSON, translated when asked for;
\* Err reports on stderr and exits with status 1
Report(translates) ==
    /\ cli_pc = "dispatch"
    /\ cli_pc' = "exited"
    /\ IF returned.ok
       THEN /\ stdout' = Some(IF translates /\ ~porcelain
                              THEN replace_status_recursive(returned.json)
                              ELSE returned.json)
            /\ exit_code' = 0
       ELSE /\ stdout' = None
            /\ exit_code' = 1
    /\ UNCHANGED <<single, concurrent, command, porcelain, returned>>

\* main.rs lines 131-144
RunGet == command = "get" /\ Report(TRUE)

\* main.rs lines 145-162
RunList == command = "list" /\ Report(TRUE)

\* main.rs lines 165-178
RunGenerate == command = "generate" /\ Report(TRUE)

\* main.rs lines 196-206
RunRegenerate == command = "regenerate" /\ Report(FALSE)

NextCommandLine ==
    \/ RunGet
    \/ RunList
    \/ RunGenerate
    \/ RunRegenerate

SpecCommandLine == InitCommandLine /\ [][NextCommandLine]_vars

NextAbort ==
    \/ Next
    \/ Abort

SpecAbort == Init /\ [][NextAbort]_vars

----------------------------------------------------------------------------
(* Vocabulary of the properties *)

Last(seq) == seq[Len(seq)]

\* An extracted status that ends the poll loop
TerminalObservation(o) == o = Some(2) \/ o = Some(3)

\* The artifact endpoint answered HTTP 500
Answered500(reply) == reply.kind = "http" /\ reply.code = 500

\* The artifact endpoint answered 2xx and delivered its body
Answered2xx(reply) == reply.kind = "http" /\ reply.code \in 200 .. 299 /\ reply.data.some

\* No request, sleep or file access has happened
NothingDone ==
    /\ nPost = 0 /\ nStatus = 0 /\ nZip = 0
    /\ pollSleeps = 0 /\ zipSleeps = 0
    /\ nRead = 0 /\ nWrite = 0
    /\ fs = InitFs

----------------------------------------------------------------------------
(* C1: when the status responses are n non-terminal observations followed *)
(* by status 2, the poll loop has issued exactly n+1 status requests, has  *)
(* slept exactly n times, 5 seconds each, and has left the loop as         *)
(* Complete on observation n+1; while it is still polling it has slept     *)
(* once per non-terminal observation.                                      *)
C1_PollLoopCompletes ==
    /\ (/\ Len(obs) >= 1
        /\ Last(obs) = Some(2)
        /\ \A i \in 1 .. (Len(obs) - 1) : ~TerminalObservation(obs[i]))
       => /\ nStatus = Len(obs)
          /\ pollSleeps = Len(obs) - 1
          /\ elapsed = 5 * (Len(obs) - 1)
          /\ pc \in {"fetch", "fetch_sleep", "write", "done"}
          /\ animation_results.some
          /\ result # Err("JobFailedRefunded")
    /\ pc = "poll_sleep"
       => /\ nStatus = Len(obs)
          /\ ~TerminalObservation(Last(obs))
          /\ pollSleeps = Len(obs) - 1
    /\ pc = "poll"
       => /\ nStatus = Len(obs)
          /\ pollSleeps = Len(obs)
          /\ elapsed = 5 * Len(obs)

\* The responses [1,1,2] have been observed: two sleeps, Complete on the third
C1_Witness ==
    /\ obs = <<Some(1), Some(1), Some(2)>>
    /\ pollSleeps = 2
    /\ nStatus = 3
    /\ pc = "fetch"

(* C2: an observation of status 3 ends the run at once with                *)
(* JobFailedRefunded: no sleep follows it, no further status request, no   *)
(* artifact request and no file write.                                     *)
C2_Status3FailsAtOnce ==
    (Len(obs) >= 1 /\ Last(obs) = Some(3))
    => /\ pc = "done"
       /\ result = Err("JobFailedRefunded")
       /\ nStatus = Len(obs)
       /\ pollSleeps = Len(obs) - 1
       /\ nZip = 0 /\ zipSleeps = 0 /\ nWrite = 0
       /\ fs = InitFs

\* Status 3 observed after one pending observation
C2_Witness ==
    /\ obs = <<Some(1), Some(3)>>
    /\ pc = "done"
    /\ pollSleeps = 1

(* C3: while the artifact endpoint has answered only HTTP 500, k times    *)
(* with k <= 24, the fetcher keeps retrying; when a 2xx answer follows k   *)
(* answers of 500, exactly k+1 GETs and k sleeps of 5 seconds have         *)
(* happened and the fetch has succeeded with the bytes of that answer.     *)
C3_RetriesThenSuccess ==
    /\ (/\ Len(zipHist) \in 1 .. 24
        /\ \A i \in 1 .. Len(zipHist) : Answered500(zipHist[i]))
       => /\ pc \in {"fetch_sleep", "fetch"}
          /\ result = Pending
    /\ (Len(zipHist) >= 1 /\ Answered2xx(Last(zipHist)))
       => /\ \A i \in 1 .. (Len(zipHist) - 1) : Answered500(zipHist[i])
          /\ Len(zipHist) - 1 <= 24
          /\ nZip = Len(zipHist)
          /\ zipSleeps = Len(zipHist) - 1
          /\ waited_sec = 5 * (Len(zipHist) - 1)
          /\ pc \in {"write", "done"}
          /\ bytes = Last(zipHist).data

\* The answers [500,500,200]: two retries, then success
C3_Witness ==
    /\ Len(zipHist) = 3
    /\ Answered500(zipHist[1]) /\ Answered500(zipHist[2])
    /\ zipHist[3].kind = "http" /\ zipHist[3].code = 200 /\ zipHist[3].data.some
    /\ zipSleeps = 2
    /\ pc = "write"

(* C4: when every attempt is answered HTTP 500 the fetcher fails with      *)
(* Timeout, on the attempt made after 120 seconds of waiting; it never     *)
(* accumulates more than 120 seconds of sleep and writes no file.  Timeout *)
(* has no other cause.                                                     *)
C4_TimeoutAfterCeiling ==
    /\ waited_sec <= 120
    /\ 5 * zipSleeps <= 120
    /\ Len(zipHist) <= 25
    /\ (/\ Len(zipHist) = 25
        /\ \A i \in 1 .. 25 : Answered500(zipHist[i]))
       => /\ pc = "done"
          /\ result = Err("Timeout")
          /\ waited_sec = 120
          /\ nWrite = 0
          /\ fs = InitFs
    /\ result = Err("Timeout")
       => /\ Len(zipHist) = 25
          /\ \A i \in 1 .. 25 : Answered500(zipHist[i])

\* The run has timed out
C4_Witness ==
    /\ result = Err("Timeout")
    /\ zipSleeps = 24
    /\ pc = "done"

(* C5: a non-blocking run whose submission yielded an animation id returns *)
(* the submission response as received; the POST is its only network call, *)
(* and it sleeps and writes nothing.                                      *)
C5_NonBlockingReturns ==
    (~block /\ animation_id.some)
    => /\ pc = "done"
       /\ post_resp.some
       /\ result = Ok(post_resp.v)
       /\ nPost = 1
       /\ nStatus = 0 /\ nZip = 0
       /\ pollSleeps = 0 /\ zipSleeps = 0
       /\ nWrite = 0
       /\ fs = InitFs

\* A non-blocking run has returned animation id 42
C5_Witness ==
    /\ ~block
    /\ pc = "done"
    /\ result = Ok([animation_id |-> JInt(42)])

(* C6: a run that ends in full success has written the artifact exactly    *)
(* once; a run that ends in a failure has written nothing, and leaves the  *)
(* filesystem as it found it (no partial artifact).                        *)
C6_WriteOnlyOnSuccess ==
    pc = "done"
    => IF result.kind = "ok"
       THEN nWrite = (IF block THEN 1 ELSE 0)
       ELSE fs = InitFs

(* C7: the operations of a blocking run come in strict order, as far as    *)
(* the run gets: one POST, then status GETs (only after a POST that        *)
(* yielded an animation id), then artifact GETs (only after a status 2     *)
(* observation with a result id), then one write (only after a 2xx         *)
(* artifact answer); once a later phase has begun no operation of an       *)
(* earlier phase happens.                                                  *)
C7_StrictOrder ==
    [][block =>
        /\ (nPost' # nPost
            => nPost = 0 /\ nStatus = 0 /\ nZip = 0 /\ nWrite = 0
               /\ pollSleeps = 0 /\ zipSleeps = 0)
        /\ (nStatus' # nStatus \/ pollSleeps' # pollSleeps
            => nPost = 1 /\ animation_id.some /\ nZip = 0 /\ zipSleeps = 0 /\ nWrite = 0)
        /\ (nZip' # nZip \/ zipSleeps' # zipSleeps
            => nPost = 1 /\ nStatus >= 1 /\ Len(obs) >= 1 /\ Last(obs) = Some(2)
               /\ result_id.some
               /\ nWrite = 0)
        /\ (nWrite' # nWrite
            => nPost = 1 /\ nStatus >= 1 /\ nZip >= 1 /\ Len(zipHist) >= 1
               /\ Answered2xx(Last(zipHist))
               /\ nWrite = 0)
        /\ (pc' = "done" /\ result'.kind = "ok"
            => nPost' = 1 /\ nStatus' >= 1 /\ nZip' >= 1 /\ nWrite' = 1)
      ]_vars

\* A blocking run has gone through all four phases
C7_Witness ==
    /\ block
    /\ pc = "done"
    /\ nPost = 1 /\ nStatus = 2 /\ nZip = 2 /\ nWrite = 1

(* C8: a successful blocking run returns the animation id of the           *)
(* submission response, the id of the terminal status payload and the      *)
(* artifact path: the caller's output path when given, otherwise           *)
(* animation_<animation_id>_<result_id>.zip; the file at that path holds   *)
(* exactly the bytes of the 2xx artifact answer, and no other file has     *)
(* changed.                                                               *)
C8_Outcome ==
    (block /\ pc = "done" /\ result.kind = "ok")
    => LET payload == animation_results.v.items[1]  \* the object, or element 0 of the array
           path == result.value.zip_path
       IN /\ JInt(result.value.animation_id) = post_resp.v.animation_id
          /\ payload.status = JInt(2)
          /\ JInt(result.value.result_id) = payload.id
          /\ output_file.some => path = output_file.v
          /\ ~output_file.some
             => \E a \in AnimationIdValues, r \in ResultIdValues :
                  /\ a = result.value.animation_id
                  /\ r = result.value.result_id
                  /\ path = "animation_" \o ToString(a) \o "_" \o ToString(r) \o ".zip"
          /\ fs[path] = File(Last(zipHist).data.v)
          /\ \A p \in Paths \ {path} : fs[p] = InitFs[p]

\* Animation 42, result 77, no output path: animation_42_77.zip is written
C8_Witness ==
    /\ pc = "done"
    /\ ~output_file.some
    /\ result = Ok([animation_id |-> 42, result_id |-> 77, zip_path |-> "animation_42_77.zip"])
    /\ fs["animation_42_77.zip"] = File(<<1, 2>>)

\* The caller's output file, which existed before, is replaced
C8_WitnessReplace ==
    /\ pc = "done"
    /\ result.kind = "ok"
    /\ block
    /\ output_file = Some("out.zip")
    /\ fs["out.zip"] = File(<<1, 2>>)

(* C9: with a duration other than 5 and 10 the run fails with              *)
(* InvalidParameter before any network call and any file access, whatever  *)
(* the other arguments are.                                                *)
C9_InvalidDuration ==
    (duration_seconds \notin {5, 10} /\ pc # "start")
    => /\ pc = "done"
       /\ result = Err("InvalidParameter")
       /\ NothingDone

\* Duration 7 has been rejected although both model selectors are present
C9_Witness ==
    /\ duration_seconds = 7
    /\ model_id.some /\ model_name.some
    /\ pc = "done"

(* C10, as stated: with both a model id and a model name the run fails     *)
(* with ConflictingParameter whatever the other arguments are, the         *)
(* duration included.                                                      *)
C10_ConflictWhateverDuration ==
    (model_id.some /\ model_name.some /\ pc # "start")
    => /\ pc = "done"
       /\ result = Err("ConflictingParameter")
       /\ nPost = 0 /\ nStatus = 0 /\ nZip = 0

(* C10, amended: with both a model id and a model name and a duration of   *)
(* 5 or 10 the run fails with ConflictingParameter; with any other         *)
(* duration it fails with InvalidParameter, the duration being checked     *)
(* first; in both cases no network call and no file access happens.        *)
C10_ConflictAfterDuration ==
    (model_id.some /\ model_name.some /\ pc # "start")
    => /\ pc = "done"
       /\ result = (IF duration_seconds \in {5, 10}
                    THEN Err("ConflictingParameter")
                    ELSE Err("InvalidParameter"))
       /\ NothingDone

\* Both selectors with duration 10: ConflictingParameter
C10_Witness ==
    /\ model_id.some /\ model_name.some
    /\ duration_seconds = 10
    /\ result = Err("ConflictingParameter")

(* C11: a submission response without a usable animation_id ends the run   *)
(* with MalformedResponse before any status request, in blocking and       *)
(* non-blocking mode; a status 2 payload without a usable result id ends   *)
(* it with MalformedResponse before any artifact request and any write.    *)
C11_MalformedResponses ==
    /\ (post_resp.some /\ post_resp.v.animation_id.t # "int")
       => /\ pc = "done"
          /\ result = Err("MalformedResponse")
          /\ nPost = 1
          /\ nStatus = 0 /\ pollSleeps = 0
          /\ nZip = 0 /\ zipSleeps = 0
          /\ nWrite = 0 /\ fs = InitFs
    /\ (animation_results.some /\ animation_results.v.items[1].id.t # "int")
       => /\ pc = "done"
          /\ result = Err("MalformedResponse")
          /\ nZip = 0 /\ zipSleeps = 0
          /\ nWrite = 0 /\ fs = InitFs

\* A status 2 payload without id has ended a blocking run
C11_Witness ==
    /\ block
    /\ animation_results.some
    /\ animation_results.v.items[1].id = Absent
    /\ result = Err("MalformedResponse")

\* A submission response without animation_id has ended a non-blocking run
C11_WitnessSubmission ==
    /\ ~block
    /\ post_resp = Some([animation_id |-> Absent])
    /\ result = Err("MalformedResponse")

(* C12: an artifact attempt that is answered neither 2xx nor 500 ends the  *)
(* fetch there: RemoteError for another status, TransportError for a       *)
(* connection failure; no sleep and no further request follow, whatever    *)
(* is left of the wait budget.                                             *)
C12_FetchFailsPermanently ==
    (Len(zipHist) >= 1 /\ ~Answered500(Last(zipHist))
       /\ ~(Last(zipHist).kind = "http" /\ Last(zipHist).code \in 200 .. 299))
    => /\ pc = "done"
       /\ result = (IF Last(zipHist).kind = "send_err"
                    THEN Err("TransportError")
                    ELSE Err("RemoteError"))
       /\ nZip = Len(zipHist)
       /\ zipSleeps = Len(zipHist) - 1
       /\ waited_sec = 5 * (Len(zipHist) - 1)
       /\ nWrite = 0 /\ fs = InitFs

\* HTTP 404 on the second attempt, with 115 seconds of budget left
C12_Witness ==
    /\ Len(zipHist) = 2
    /\ Answered500(zipHist[1])
    /\ zipHist[2].kind = "http" /\ zipHist[2].code = 404
    /\ result = Err("RemoteError")
    /\ waited_sec = 5

(* C13: a status request leaves the poll loop only when it fails, or       *)
(* observes 2 or 3; every other successful response (another status        *)
(* value, no status, no integer, an empty array) is followed by a sleep of *)
(* 5 seconds and the next status request, whatever the number of           *)
(* iterations made so far.                                                 *)
C13_PollLoopExits ==
    [][/\ (pc = "poll" /\ nStatus' # nStatus)
          => IF obs' = obs
             THEN /\ pc' = "done"
                  /\ result' \in {Err("TransportError"), Err("RemoteError"), Err("DecodeError")}
             ELSE IF Last(obs') = Some(2)
             THEN pc' = "fetch" \/ (pc' = "done" /\ result' = Err("MalformedResponse"))
             ELSE IF Last(obs') = Some(3)
             THEN pc' = "done" /\ result' = Err("JobFailedRefunded")
             ELSE /\ pc' = "poll_sleep"
                  /\ result' = Pending
                  /\ pollSleeps' = pollSleeps
       /\ pc = "poll_sleep"
          => /\ pc' = "poll"
             /\ pollSleeps' = pollSleeps + 1
             /\ elapsed' = elapsed + 5
             /\ nStatus' = nStatus
             /\ result' = Pending
       /\ pc' \in {"poll", "poll_sleep"} => pc \in {"submit", "poll", "poll_sleep"}
      ]_vars

\* Three responses without status 2 or 3, of three kinds: the loop goes on
C13_Witness ==
    /\ obs = <<None, Some(0), Some(1)>>
    /\ pollSleeps = 3
    /\ pc = "poll"
    /\ result = Pending

(* C14: the transition of the poll loop and the extracted result id depend *)
(* on the object of interest alone: the payload itself when it is an       *)
(* object, its first element when it is an array; the shape and the        *)
(* elements after the first have no influence.                             *)
C14_ShapesNormalised ==
    /\ animation_results.some
       => LET item == animation_results.v.items[1] IN
          /\ item.status = JInt(2)
          /\ IF item.id.t = "int"
             THEN result_id = Some(item.id.n) /\ result # Err("MalformedResponse")
             ELSE result = Err("MalformedResponse")
    /\ (/\ statusReply.some
        /\ statusReply.v.kind = "http"
        /\ statusReply.v.code \in 200 .. 299
        /\ statusReply.v.json # NotJson
        /\ Len(statusReply.v.json.items) >= 1)
       => LET item == statusReply.v.json.items[1] IN
          IF item.status = JInt(2)
          THEN animation_results = Some(statusReply.v.json)
          ELSE IF item.status = JInt(3)
          THEN pc = "done" /\ result = Err("JobFailedRefunded")
          ELSE pc = "poll_sleep" /\ result = Pending

\* An array of two: status 2 and id 77 first, status 3 and id 78 second
C14_Witness ==
    /\ animation_results.some
    /\ animation_results.v.shape = "array"
    /\ Len(animation_results.v.items) = 2
    /\ animation_results.v.items[1] = [status |-> JInt(2), id |-> JInt(77)]
    /\ result_id = Some(77)
    /\ pc = "fetch"

(* C15: with a valid duration, selectors that do not conflict and an input *)
(* image path whose file cannot be read, the run fails with IOError before *)
(* the submission: no POST and no other network call.                      *)
C15_UnreadableImage ==
    (/\ input_image_path.some
     /\ ~image_file.exists
     /\ duration_seconds \in {5, 10}
     /\ ~(model_id.some /\ model_name.some)
     /\ pc \notin {"start", "prepare"})
    => /\ pc = "done"
       /\ result = Err("IOError")
       /\ nRead = 1
       /\ nPost = 0 /\ nStatus = 0 /\ nZip = 0
       /\ nWrite = 0 /\ fs = InitFs

\* The read of the missing image has failed
C15_Witness ==
    /\ input_image_path.some
    /\ ~image_file.exists
    /\ nRead = 1
    /\ result = Err("IOError")

(* C16: the body of every submission holds exactly one model selector:     *)
(* animation_model_id with the given id, animation_model_name with the     *)
(* given name, or animation_model_id 6 when neither was given; never both  *)
(* keys, never none, and the unreachable arm is never taken.               *)
C16_OneModelSelector ==
    (pc = "submit" \/ nPost >= 1)
    => LET selectors == {e \in body : e[1] \in {"animation_model_id",
                                               "animation_model_name",
                                               "unreachable"}}
       IN /\ Cardinality(selectors) = 1
          /\ ~(model_id.some /\ model_name.some)
          /\ (model_id.some
              => selectors = {<<"animation_model_id", JInt(model_id.v)>>})
          /\ (model_name.some
              => selectors = {<<"animation_model_name", JStr(model_name.v)>>})
          /\ (~model_id.some /\ ~model_name.some
              => selectors = {<<"animation_model_id", JInt(6)>>})

\* A submission made without selector: the default id 6
C16_Witness ==
    /\ nPost = 1
    /\ ~model_id.some /\ ~model_name.some
    /\ <<"animation_model_id", JInt(6)>> \in body

(* C18: a status request answered with a non-2xx status (500 included) or  *)
(* failing on the network ends the run at once with RemoteError or         *)
(* TransportError; it is not retried.                                      *)
C18_FailedStatusRequestAborts ==
    /\ (statusReply.some /\ statusReply.v.kind = "send_err")
       => pc = "done" /\ result = Err("TransportError")
    /\ (/\ statusReply.some
        /\ statusReply.v.kind = "http"
        /\ statusReply.v.code \notin 200 .. 299)
       => pc = "done" /\ result = Err("RemoteError")

(* C20: waited_sec is a multiple of 5 between 0 and 120, so the fetcher    *)
(* makes at most 25 GETs and 24 sleeps and has ended after the 25th GET;   *)
(* Timeout comes only from an answer of 500 received at waited_sec = 120,  *)
(* and a 2xx answer to the 25th GET still succeeds.                        *)
C20_FetcherBounded ==
    /\ waited_sec \in {5 * k : k \in 0 .. 24}
    /\ waited_sec = 5 * zipSleeps
    /\ nZip <= 25 /\ zipSleeps <= 24
    /\ nZip = 25 => pc \in {"write", "done"}
    /\ pc = "fetch" => nZip = zipSleeps
    /\ pc = "fetch_sleep" => nZip = zipSleeps + 1 /\ waited_sec < 120
    /\ result = Err("Timeout")
       => /\ Answered500(Last(zipHist))
          /\ waited_sec = 120
          /\ nZip = 25
    /\ (nZip = 25 /\ Answered2xx(Last(zipHist)))
       => /\ result # Err("Timeout")
          /\ bytes = Last(zipHist).data
          /\ waited_sec = 120

\* The 25th GET is answered 2xx and the artifact is about to be written
C20_Witness ==
    /\ nZip = 25
    /\ Answered2xx(Last(zipHist))
    /\ pc = "write"

(* C19: when the host drops the run at a suspension point, the filesystem  *)
(* is exactly as it was when the run started: no interruption leaves a    *)
(* partly written or overwritten artifact file.                            *)
C19_AbortLeavesFilesystem ==
    pc = "aborted" => fs = InitFs

RECURSIVE Translated(_)
Translated(value) ==
    IF value.t = "obj"
    THEN Obj(IF value.status \in {JInt(1), JInt(2), JInt(3)}
             THEN JStr(StatusLabel(value.status.n))
             ELSE Translated(value.status),
             Translated(value.results))
    ELSE IF value.t = "arr"
    THEN Arr([i \in DOMAIN value.items |-> Translated(value.items[i])])
    ELSE value

(* C21: get, list and generate print the JSON with every integer status    *)
(* of 1, 2 or 3 replaced by its label at every depth of objects and        *)
(* arrays, and every other value unchanged, also below an object whose     *)
(* status is an unrecognised number; with porcelain they print the JSON    *)
(* unmodified.                                                             *)
C21_StatusTranslation ==
    (stdout.some /\ command \in {"get", "list", "generate"})
    => stdout.v = (IF porcelain THEN returned.json ELSE Translated(returned.json))

====
